---- MODULE Spec2Model ----
(***************************************************************************)
(* GRANDPA justification verification with the strict policy               *)
(* (bridges/primitives/header-chain, justification/verification/strict.rs).*)
(*                                                                         *)
(* The callbacks of StrictJustificationVerifier and the entry point        *)
(* verify_justification are translated from strict.rs.  The generic engine *)
(* that drives the callbacks (JustificationVerifier::verify_justification  *)
(* and the ancestry walk) lives in verification/mod.rs; it is modelled     *)
(* from sections 4.1 and 4.2 of the specification.                         *)
(***************************************************************************)
EXTENDS Integers, Sequences, FiniteSets, TLC

VARIABLES pc, context, justification, verifier, idx, visited,
          cumulative_weight, credits, result, hooks, previous

vars == <<pc, context, justification, verifier, idx, visited,
          cumulative_weight, credits, result, hooks, previous>>

inputs == <<context, justification>>

(***************************************************************************)
(* Bounds                                                                  *)
(***************************************************************************)
\* Longest sequence of precommits in a justification.
MaxPrecommits == 2

(***************************************************************************)
(* Input universe                                                          *)
(***************************************************************************)
\* The claimed finalized target (hash, number).
finalized_target == [hash |-> 0, number |-> 1]

\* Headers a justification may supply as votes ancestries: a child of the
\* target, a grandchild, and a non-conforming header that is its own parent.
HeaderUniverse ==
    { [hash |-> 1, number |-> 2, parent_hash |-> 0],
      [hash |-> 2, number |-> 3, parent_hash |-> 1],
      [hash |-> 3, number |-> 2, parent_hash |-> 3] }

\* Blocks a precommit may name: the target, the supplied headers, and the
\* child of the target under a number that is not its own.
VoteTargets ==
    { [hash |-> 0, number |-> 1], [hash |-> 1, number |-> 2],
      [hash |-> 2, number |-> 3], [hash |-> 3, number |-> 2],
      [hash |-> 1, number |-> 3] }

\* Authority ids that can sign; "u" is in no authority set.
AuthorityId == {"a1", "a2", "u"}

\* The signature an authority produces over (target_hash, target_number).
Sign(id, hash, number) == [signer |-> id, hash |-> hash, number |-> number]

\* A signature over another message than the one the precommit carries.
Forged(id, hash, number) == Sign(id, hash, number + 1)

\* SignedPrecommit { precommit { target_hash, target_number }, signature, id }
SignedPrecommit ==
    { [id |-> a, target_hash |-> t.hash, target_number |-> t.number, signature |-> s] :
        a \in AuthorityId, t \in VoteTargets,
        s \in UNION { {Sign(b, u.hash, u.number), Forged(b, u.hash, u.number)} :
                        b \in AuthorityId, u \in VoteTargets } }

\* Precommits whose signature is either the right one or a forged one.
Precommits ==
    { p \in SignedPrecommit :
        p.signature \in { Sign(p.id, p.target_hash, p.target_number),
                          Forged(p.id, p.target_hash, p.target_number) } }

\* GrandpaJustification { commit.precommits, votes_ancestries }
GrandpaJustification ==
    { [precommits |-> ps, votes_ancestries |-> hs] :
        ps \in UNION { [1..n -> Precommits] : n \in 0..MaxPrecommits },
        hs \in SUBSET HeaderUniverse }

\* JustificationVerificationContext: authority weights and quorum threshold
\* (threshold <= total weight).
JustificationVerificationContext ==
    { [weights |-> ("a1" :> 1 @@ "a2" :> 2), threshold |-> t] : t \in {2, 3} }

(***************************************************************************)
(* Results of the callbacks                                                *)
(***************************************************************************)
Err(e) == [ok |-> FALSE, val |-> e]
Ok(v) == [ok |-> TRUE, val |-> v]

\* struct StrictJustificationVerifier { votes: BTreeSet<AuthorityId> }
StrictJustificationVerifier(votes) == [votes |-> votes]

(***************************************************************************)
(* impl JustificationVerifier for StrictJustificationVerifier              *)
(***************************************************************************)
\* Variant: the redundant vote is reported as a duplicate one.
process_redundant_vote_WrongError(self, precommit_idx) ==
    Err("DuplicateAuthorityVote")

\* Variant: a redundant vote is skipped instead of rejected.
process_redundant_vote_Skip(self, precommit_idx) ==
    Ok("Skip")

process_redundant_vote(self, precommit_idx) ==
    Err("RedundantAuthorityVote")

\* Variant: the duplicate vote is reported as a redundant one.
process_known_authority_vote_WrongError(self, precommit_idx, signed) ==
    IF signed.id \in self.votes
    THEN Err("RedundantAuthorityVote")
    ELSE Ok("Run")

\* Variant: a second vote of an authority is let through.
process_known_authority_vote_AlwaysRun(self, precommit_idx, signed) ==
    Ok("Run")

process_known_authority_vote(self, precommit_idx, signed) ==
    IF signed.id \in self.votes
    THEN Err("DuplicateAuthorityVote")
    ELSE Ok("Run")

\* Variant: votes of unknown authorities are ignored instead of rejected.
process_unknown_authority_vote_Ignore(self, precommit_idx) ==
    Ok("Unit")

\* Variant: an unknown authority is reported as an unrelated ancestry.
process_unknown_authority_vote_WrongError(self, precommit_idx) ==
    Err("UnrelatedAncestryVote")

process_unknown_authority_vote(self, precommit_idx) ==
    Err("UnknownAuthorityVote")

\* Variant: a vote for an unrelated block is skipped instead of rejected.
process_unrelated_ancestry_vote_Skip(self, precommit_idx) ==
    Ok("Skip")

\* Variant: a vote for an unrelated block is let through.
process_unrelated_ancestry_vote_Run(self, precommit_idx) ==
    Ok("Run")

process_unrelated_ancestry_vote(self, precommit_idx) ==
    Err("UnrelatedAncestryVote")

\* Variant: votes with a bad signature are ignored instead of rejected.
process_invalid_signature_vote_Ignore(self, precommit_idx) ==
    Ok("Unit")

\* Variant: a bad signature is reported as an unknown authority.
process_invalid_signature_vote_WrongError(self, precommit_idx) ==
    Err("UnknownAuthorityVote")

process_invalid_signature_vote(self, precommit_idx) ==
    Err("InvalidAuthoritySignature")

\* Variant: the authority of a valid vote replaces the recorded ones.
process_valid_vote_Replace(self, signed) ==
    [self EXCEPT !.votes = {signed.id}]

\* Variant: the authority of a valid vote is not recorded.
process_valid_vote_NoInsert(self, signed) ==
    self

process_valid_vote(self, signed) ==
    [self EXCEPT !.votes = @ \cup {signed.id}]

\* Variant: unused ancestry headers are tolerated.
process_redundant_votes_ancestries_Ignore(self, redundant_votes_ancestries) ==
    Ok("Unit")

process_redundant_votes_ancestries(self, redundant_votes_ancestries) ==
    Err("RedundantVotesAncestries")

\* Variant: the verifier of the previous call is used again.
NewVerifier_Reused == verifier

\* let mut verifier = StrictJustificationVerifier { votes: BTreeSet::new() };
NewVerifier == StrictJustificationVerifier({})

(***************************************************************************)
(* Engine (specification 4.1, 4.2)                                         *)
(***************************************************************************)
\* verify(authority_id, message, signature) -> bool
check_message_signature(signed) ==
    signed.signature = Sign(signed.id, signed.target_hash, signed.target_number)

\* Sum of the context weights of a set of known authorities.
RECURSIVE SumWeights(_, _)
SumWeights(ctx, ids) ==
    IF ids = {} THEN 0
    ELSE LET a == CHOOSE x \in ids : TRUE
         IN ctx.weights[a] + SumWeights(ctx, ids \ {a})

\* Variant: the walk follows the parent links without counting the number
\* down; coming back to a header of its own route, it goes round for ever.
RECURSIVE Walk_FollowLinks(_, _, _, _)
Walk_FollowLinks(ancestries, hash, number, route) ==
    IF hash = finalized_target.hash
    THEN [found |-> TRUE, route |-> route, halts |-> TRUE]
    ELSE IF hash \in route
    THEN [found |-> FALSE, route |-> {}, halts |-> FALSE]
    ELSE LET hs == {h \in ancestries : h.hash = hash}
         IN IF hs = {}
            THEN [found |-> FALSE, route |-> {}, halts |-> TRUE]
            ELSE LET h == CHOOSE x \in hs : TRUE
                 IN Walk_FollowLinks(ancestries, h.parent_hash, number, route \cup {hash})

\* Variant: the walk marks the parent of each header it looks up instead of
\* the header.
RECURSIVE Walk_MarksParent(_, _, _, _)
Walk_MarksParent(ancestries, hash, number, route) ==
    IF hash = finalized_target.hash /\ number = finalized_target.number
    THEN [found |-> TRUE, route |-> route, halts |-> TRUE]
    ELSE IF number < finalized_target.number
    THEN [found |-> FALSE, route |-> {}, halts |-> TRUE]
    ELSE LET hs == {h \in ancestries : h.hash = hash}
         IN IF hs = {}
            THEN [found |-> FALSE, route |-> {}, halts |-> TRUE]
            ELSE LET h == CHOOSE x \in hs : TRUE
                 IN Walk_MarksParent(ancestries, h.parent_hash, number - 1,
                                     route \cup {h.parent_hash})

\* Backward walk from (hash, number) along parent-hash links, looking each
\* header up in the supplied ancestry; the number goes down by one per link.
\* Success when the finalized target is reached, failure when a parent is not
\* supplied or the number falls below the target's.  halts tells whether the
\* walk ends at all.
RECURSIVE Walk(_, _, _, _)
Walk(ancestries, hash, number, route) ==
    IF hash = finalized_target.hash /\ number = finalized_target.number
    THEN [found |-> TRUE, route |-> route, halts |-> TRUE]
    ELSE IF number < finalized_target.number
    THEN [found |-> FALSE, route |-> {}, halts |-> TRUE]
    ELSE LET hs == {h \in ancestries : h.hash = hash}
         IN IF hs = {}
            THEN [found |-> FALSE, route |-> {}, halts |-> TRUE]
            ELSE LET h == CHOOSE x \in hs : TRUE
                 IN Walk(ancestries, h.parent_hash, number - 1, route \cup {hash})

Ancestry(ancestries, hash, number) == Walk(ancestries, hash, number, {})

\* Record of one callback invocation: the callback and the index of the
\* precommit it is about.
Call(hook, precommit_idx) == [hook |-> hook, precommit_idx |-> precommit_idx]

\* Outcomes of the checks applied to one precommit; calls lists the callbacks
\* invoked on the way.
Abort(e, route) == [kind |-> "abort", err |-> e, route |-> route, calls |-> <<>>]
SkipVote(route) == [kind |-> "skip", err |-> "None", route |-> route, calls |-> <<>>]
Accept(route) == [kind |-> "valid", err |-> "None", route |-> route, calls |-> <<>>]

\* The outcome reached after one more callback invocation.
After(call, out) == [out EXCEPT !.calls = <<call>> \o @]

\* What an IterationFlow-returning callback makes the engine do.
Flow(call, r, route, continue) ==
    IF ~r.ok THEN After(call, Abort(r.val, route))
    ELSE IF r.val = "Skip" THEN After(call, SkipVote(route))
    ELSE After(call, continue)

\* What a unit-returning callback makes the engine do.
Unit(call, r) ==
    IF ~r.ok THEN After(call, Abort(r.val, {})) ELSE After(call, SkipVote({}))

\* Steps 1a-1d for the precommit at position k (index k - 1).
ClassifyPrecommit(self, ctx, just, k) ==
    LET signed == just.precommits[k]
        anc == Ancestry(just.votes_ancestries, signed.target_hash, signed.target_number)
        repeated == \E j \in 1..(k - 1) : just.precommits[j] = signed
        stepD == IF signed.id \in self.votes
                 THEN IF repeated
                      THEN Flow(Call("process_redundant_vote", k - 1),
                                process_redundant_vote(self, k - 1),
                                anc.route, Accept(anc.route))
                      ELSE Flow(Call("process_known_authority_vote", k - 1),
                                process_known_authority_vote(self, k - 1, signed),
                                anc.route, Accept(anc.route))
                 ELSE Accept(anc.route)
        stepC == IF ~anc.found
                 THEN Flow(Call("process_unrelated_ancestry_vote", k - 1),
                           process_unrelated_ancestry_vote(self, k - 1), {}, stepD)
                 ELSE stepD
        stepB == IF signed.id \notin DOMAIN ctx.weights
                 THEN Unit(Call("process_unknown_authority_vote", k - 1),
                           process_unknown_authority_vote(self, k - 1))
                 ELSE stepC
    IN IF ~check_message_signature(signed)
       THEN Unit(Call("process_invalid_signature_vote", k - 1),
                 process_invalid_signature_vote(self, k - 1))
       ELSE stepB

(***************************************************************************)
(* State machine of verification calls                                     *)
(***************************************************************************)
NoCredits == [a \in AuthorityId |-> 0]

Init ==
    /\ pc = "idle"
    /\ context \in JustificationVerificationContext
    /\ justification \in GrandpaJustification
    /\ verifier = StrictJustificationVerifier({})
    /\ idx = 1
    /\ visited = {}
    /\ cumulative_weight = 0
    /\ credits = NoCredits
    /\ result = "None"
    /\ hooks = <<>>
    /\ previous = "None"

\* pub fn verify_justification: a fresh verifier, then the engine is started.
\* previous keeps the result of the call before this one, hooks the callbacks
\* invoked so far in this call.
verify_justification ==
    /\ pc \in {"idle", "done"}
    /\ verifier' = NewVerifier
    /\ idx' = 1
    /\ visited' = {}
    /\ cumulative_weight' = 0
    /\ credits' = NoCredits
    /\ result' = "None"
    /\ hooks' = <<>>
    /\ previous' = result
    /\ pc' = "loop"
    /\ UNCHANGED inputs

\* Step 1: the precommit at position idx.
ProcessPrecommit ==
    /\ pc = "loop"
    /\ idx <= Len(justification.precommits)
    /\ LET signed == justification.precommits[idx]
           out == ClassifyPrecommit(verifier, context, justification, idx)
       IN /\ Ancestry(justification.votes_ancestries,
                      signed.target_hash, signed.target_number).halts
          /\ visited' = visited \cup out.route
          /\ IF out.kind = "abort"
             THEN /\ result' = out.err
                  /\ pc' = "done"
                  /\ hooks' = hooks \o out.calls
                  /\ UNCHANGED <<verifier, idx, cumulative_weight, credits>>
             ELSE IF out.kind = "skip"
             THEN /\ idx' = idx + 1
                  /\ hooks' = hooks \o out.calls
                  /\ UNCHANGED <<pc, result, verifier, cumulative_weight, credits>>
             ELSE /\ verifier' = process_valid_vote(verifier, signed)
                  /\ cumulative_weight' = cumulative_weight + context.weights[signed.id]
                  /\ credits' = [credits EXCEPT ![signed.id] = @ + 1]
                  /\ idx' = idx + 1
                  /\ hooks' = hooks \o out.calls \o <<Call("process_valid_vote", idx - 1)>>
                  /\ UNCHANGED <<pc, result>>
    /\ UNCHANGED <<inputs, previous>>

\* Step 2: the quorum check over the accepted set.
CheckSignedWeight ==
    /\ pc = "loop"
    /\ idx > Len(justification.precommits)
    /\ IF SumWeights(context, verifier.votes) < context.threshold
       THEN /\ result' = "InsufficientSignedWeight"
            /\ pc' = "done"
       ELSE /\ pc' = "ancestries"
            /\ UNCHANGED result
    /\ UNCHANGED <<inputs, verifier, idx, visited, cumulative_weight, credits,
                   hooks, previous>>

\* Variant: the redundant-ancestries callback is invoked on every set of
\* unvisited headers, the empty one included.
CheckVotesAncestries_Unguarded ==
    /\ pc = "ancestries"
    /\ LET unvisited == {h.hash : h \in justification.votes_ancestries} \ visited
           r == process_redundant_votes_ancestries(verifier, unvisited)
       IN /\ result' = IF ~r.ok THEN r.val ELSE "Ok"
          /\ hooks' = hooks \o <<Call("process_redundant_votes_ancestries", idx - 1)>>
    /\ pc' = "done"
    /\ UNCHANGED <<inputs, verifier, idx, visited, cumulative_weight, credits, previous>>

\* Steps 3 and 4: the supplied headers no walk has visited.
CheckVotesAncestries ==
    /\ pc = "ancestries"
    /\ LET unvisited == {h.hash : h \in justification.votes_ancestries} \ visited
           r == process_redundant_votes_ancestries(verifier, unvisited)
       IN /\ result' = IF unvisited # {} /\ ~r.ok THEN r.val ELSE "Ok"
          /\ hooks' = IF unvisited # {}
                      THEN hooks \o <<Call("process_redundant_votes_ancestries", idx - 1)>>
                      ELSE hooks
    /\ pc' = "done"
    /\ UNCHANGED <<inputs, verifier, idx, visited, cumulative_weight, credits, previous>>

Next ==
    \/ verify_justification
    \/ ProcessPrecommit
    \/ CheckSignedWeight
    \/ CheckVotesAncestries

Spec == Init /\ [][Next]_vars

\* A call is a synchronous computation: each of its steps is taken.
FairSpec ==
    /\ Spec
    /\ WF_vars(ProcessPrecommit)
    /\ WF_vars(CheckSignedWeight)
    /\ WF_vars(CheckVotesAncestries)

TypeOK ==
    /\ pc \in {"idle", "loop", "ancestries", "done"}
    /\ verifier.votes \subseteq AuthorityId
    /\ idx \in 1..(MaxPrecommits + 1)
    /\ result \in {"None", "Ok", "RedundantAuthorityVote", "DuplicateAuthorityVote",
                   "UnknownAuthorityVote", "UnrelatedAncestryVote",
                   "InvalidAuthoritySignature", "RedundantVotesAncestries",
                   "InsufficientSignedWeight"}

(***************************************************************************)
(* The callbacks on their own: each is invoked once, in any state of the   *)
(* accepted set, on the precommit and the headers of the justification     *)
(***************************************************************************)
HookInit ==
    /\ pc = "hook"
    /\ context \in JustificationVerificationContext
    /\ justification \in {j \in GrandpaJustification : Len(j.precommits) = 1}
    /\ verifier \in {StrictJustificationVerifier(v) : v \in SUBSET AuthorityId}
    /\ idx = 1
    /\ visited = {}
    /\ cumulative_weight = 0
    /\ credits = NoCredits
    /\ result = "None"
    /\ hooks = <<>>
    /\ previous = "None"

\* The callback returned r: pc tells failure from success, result holds the
\* error or the flow signal.
Returned(call, r) ==
    /\ pc' = IF r.ok THEN "hook_ok" ELSE "hook_err"
    /\ result' = r.val
    /\ hooks' = <<call>>
    /\ UNCHANGED <<inputs, verifier, idx, visited, cumulative_weight, credits, previous>>

Invoke_process_redundant_vote ==
    /\ pc = "hook"
    /\ \E k \in 0..(MaxPrecommits - 1) :
        Returned(Call("process_redundant_vote", k), process_redundant_vote(verifier, k))

Invoke_process_known_authority_vote ==
    /\ pc = "hook"
    /\ \E k \in 0..(MaxPrecommits - 1) :
        Returned(Call("process_known_authority_vote", k),
                 process_known_authority_vote(verifier, k, justification.precommits[1]))

Invoke_process_unknown_authority_vote ==
    /\ pc = "hook"
    /\ \E k \in 0..(MaxPrecommits - 1) :
        Returned(Call("process_unknown_authority_vote", k),
                 process_unknown_authority_vote(verifier, k))

Invoke_process_unrelated_ancestry_vote ==
    /\ pc = "hook"
    /\ \E k \in 0..(MaxPrecommits - 1) :
        Returned(Call("process_unrelated_ancestry_vote", k),
                 process_unrelated_ancestry_vote(verifier, k))

Invoke_process_invalid_signature_vote ==
    /\ pc = "hook"
    /\ \E k \in 0..(MaxPrecommits - 1) :
        Returned(Call("process_invalid_signature_vote", k),
                 process_invalid_signature_vote(verifier, k))

Invoke_process_redundant_votes_ancestries ==
    /\ pc = "hook"
    /\ Returned(Call("process_redundant_votes_ancestries", 0),
                process_redundant_votes_ancestries(
                    verifier, {h.hash : h \in justification.votes_ancestries}))

Invoke_process_valid_vote ==
    /\ pc = "hook"
    /\ verifier' = process_valid_vote(verifier, justification.precommits[1])
    /\ pc' = "hook_ok"
    /\ result' = "Unit"
    /\ hooks' = <<Call("process_valid_vote", 0)>>
    /\ UNCHANGED <<inputs, idx, visited, cumulative_weight, credits, previous>>

HookNext ==
    \/ Invoke_process_redundant_vote
    \/ Invoke_process_known_authority_vote
    \/ Invoke_process_unknown_authority_vote
    \/ Invoke_process_unrelated_ancestry_vote
    \/ Invoke_process_invalid_signature_vote
    \/ Invoke_process_redundant_votes_ancestries
    \/ Invoke_process_valid_vote

HookSpec == HookInit /\ [][HookNext]_vars

(***************************************************************************)
(* Vocabulary of the properties, stated over the inputs of a call          *)
(***************************************************************************)
NumPrecommits == Len(justification.precommits)
Precommit(k) == justification.precommits[k]
SuppliedHashes == {h.hash : h \in justification.votes_ancestries}
Finished == pc = "done"

WellSigned(p) ==
    /\ p.signature.signer = p.id
    /\ p.signature.hash = p.target_hash
    /\ p.signature.number = p.target_number

KnownAuthority(p) == p.id \in DOMAIN context.weights

\* Hashes reached from a set of hashes by k parent links of supplied headers.
RECURSIVE Back(_, _)
Back(hashes, k) ==
    IF k = 0 THEN hashes
    ELSE Back({h.parent_hash : h \in {x \in justification.votes_ancestries : x.hash \in hashes}},
              k - 1)

Distance(p) == p.target_number - finalized_target.number

\* The precommit's target is the finalized target or a descendant of it
\* through supplied headers.
Connected(p) ==
    /\ Distance(p) >= 0
    /\ finalized_target.hash \in Back({p.target_hash}, Distance(p))

\* The supplied headers on the chain from the precommit's target to the
\* finalized target.
PathOf(p) ==
    IF Connected(p)
    THEN UNION {Back({p.target_hash}, k) : k \in 0..(Distance(p) - 1)}
    ELSE {}

\* The precommit at k passes every check of the strict policy.
ValidAt(k) ==
    /\ WellSigned(Precommit(k))
    /\ KnownAuthority(Precommit(k))
    /\ Connected(Precommit(k))
    /\ \A j \in 1..(k - 1) : Precommit(j).id # Precommit(k).id

AllValidBefore(k) == \A j \in 1..(k - 1) : ValidAt(j)
AllValid == AllValidBefore(NumPrecommits + 1)
Voters == {Precommit(k).id : k \in 1..NumPrecommits}
HeaderUsed(h) == \E k \in 1..NumPrecommits : h.hash \in PathOf(Precommit(k))
AllHeadersUsed == \A h \in justification.votes_ancestries : HeaderUsed(h)

(***************************************************************************)
(* Properties                                                              *)
(***************************************************************************)
\* C1: a justification in which every precommit is well-signed, comes from a
\* known authority that votes only once, chains to the finalized target
\* through supplied headers, every supplied header is on such a chain and
\* the voters' weight reaches the threshold, is accepted.
C1_ValidJustificationAccepted ==
    (Finished /\ AllValid /\ AllHeadersUsed
        /\ SumWeights(context, Voters) >= context.threshold)
    => result = "Ok"

C1_Witness ==
    /\ Finished /\ result = "Ok"
    /\ NumPrecommits = 2 /\ AllValid /\ AllHeadersUsed
    /\ Cardinality(justification.votes_ancestries) = 2
    /\ SumWeights(context, Voters) >= context.threshold

\* C2: success implies that every precommit is well-signed, from a known
\* authority, that no authority votes twice, that every target is connected
\* to the finalized target, that the voters' weight reaches the threshold
\* and that every supplied header is on the chain of some vote.
C2_AcceptedImpliesValid ==
    (Finished /\ result = "Ok")
    => /\ \A k \in 1..NumPrecommits : WellSigned(Precommit(k))
       /\ \A k \in 1..NumPrecommits : KnownAuthority(Precommit(k))
       /\ \A j, k \in 1..NumPrecommits : j # k => Precommit(j).id # Precommit(k).id
       /\ \A k \in 1..NumPrecommits : Connected(Precommit(k))
       /\ SumWeights(context, Voters) >= context.threshold
       /\ AllHeadersUsed
       /\ SuppliedHashes \subseteq visited

C2_Witness ==
    /\ Finished /\ result = "Ok"
    /\ NumPrecommits = 2
    /\ justification.votes_ancestries # {}

\* C3 (as stated): a justification with a precommit of an unknown authority
\* fails with UnknownAuthorityVote, whatever else it contains.
C3_Original ==
    (Finished /\ \E k \in 1..NumPrecommits : ~KnownAuthority(Precommit(k)))
    => result = "UnknownAuthorityVote"

\* C3 (amended): if every precommit before k is valid and the precommit at k
\* is well-signed by an unknown authority, verification fails with
\* UnknownAuthorityVote, whatever its target and whatever follows it.
C3_UnknownAuthorityRejected ==
    (Finished /\ \E k \in 1..NumPrecommits :
        AllValidBefore(k) /\ WellSigned(Precommit(k)) /\ ~KnownAuthority(Precommit(k)))
    => result = "UnknownAuthorityVote"

C3_Witness ==
    /\ Finished /\ result = "UnknownAuthorityVote"
    /\ NumPrecommits = 2 /\ ValidAt(1)
    /\ WellSigned(Precommit(2)) /\ ~KnownAuthority(Precommit(2))
    /\ ~Connected(Precommit(2))

\* Two precommits name different blocks.
DifferentTargets(p, q) ==
    p.target_hash # q.target_hash \/ p.target_number # q.target_number

\* C4 (as stated): a justification in which one authority appears in two
\* precommits with different targets fails with DuplicateAuthorityVote.
C4_Original ==
    (Finished /\ \E j, k \in 1..NumPrecommits :
        /\ j < k /\ Precommit(j).id = Precommit(k).id
        /\ DifferentTargets(Precommit(j), Precommit(k)))
    => result = "DuplicateAuthorityVote"

\* C4 (amended): if every precommit before k is valid and the precommit at k
\* is well-signed, chains to the target and comes from the authority of an
\* earlier precommit with a different target, verification fails with
\* DuplicateAuthorityVote.
C4_DuplicateVoteRejected ==
    (Finished /\ \E k \in 1..NumPrecommits :
        /\ AllValidBefore(k)
        /\ WellSigned(Precommit(k)) /\ Connected(Precommit(k))
        /\ \E j \in 1..(k - 1) :
             /\ Precommit(j).id = Precommit(k).id
             /\ DifferentTargets(Precommit(j), Precommit(k)))
    => result = "DuplicateAuthorityVote"

C4_Witness ==
    /\ Finished /\ result = "DuplicateAuthorityVote"
    /\ NumPrecommits = 2 /\ ValidAt(1)
    /\ WellSigned(Precommit(2)) /\ Connected(Precommit(2))
    /\ Precommit(1).id = Precommit(2).id
    /\ DifferentTargets(Precommit(1), Precommit(2))

\* C5 (as stated): a justification in which the identical vote of one
\* authority appears twice fails with RedundantAuthorityVote.
C5_Original ==
    (Finished /\ \E j, k \in 1..NumPrecommits : j < k /\ Precommit(j) = Precommit(k))
    => result = "RedundantAuthorityVote"

\* C5 (amended): if every precommit before k is valid and the precommit at k
\* is identical to an earlier one, verification fails with
\* RedundantAuthorityVote (and not with DuplicateAuthorityVote).
C5_RedundantVoteRejected ==
    (Finished /\ \E k \in 1..NumPrecommits :
        /\ AllValidBefore(k)
        /\ \E j \in 1..(k - 1) : Precommit(j) = Precommit(k))
    => result = "RedundantAuthorityVote"

C5_Witness ==
    /\ Finished /\ result = "RedundantAuthorityVote"
    /\ NumPrecommits = 2 /\ ValidAt(1)
    /\ Precommit(1) = Precommit(2)

\* A supplied header on the chain of no accepted vote (the precommits before
\* idx are the accepted ones).
UnusedHeader(h) == \A k \in 1..(idx - 1) : h.hash \notin PathOf(Precommit(k))

\* C6 (as stated): a justification that supplies a header on the chain walk
\* of no accepted vote fails with RedundantVotesAncestries.
C6_Original ==
    (Finished /\ \E h \in justification.votes_ancestries : UnusedHeader(h))
    => result = "RedundantVotesAncestries"

\* C6 (amended): if every precommit is valid and the voters' weight reaches
\* the threshold, a justification that supplies a header on the chain of no
\* vote fails with RedundantVotesAncestries.
C6_RedundantAncestriesRejected ==
    (Finished /\ AllValid /\ SumWeights(context, Voters) >= context.threshold
        /\ ~AllHeadersUsed)
    => result = "RedundantVotesAncestries"

C6_Witness ==
    /\ Finished /\ result = "RedundantVotesAncestries"
    /\ NumPrecommits = 2 /\ AllValid
    /\ SumWeights(context, Voters) >= context.threshold
    /\ \E g, h \in justification.votes_ancestries : HeaderUsed(g) /\ ~HeaderUsed(h)

\* C7 (as stated): whenever the weight of the accepted authorities is below
\* the threshold, verification fails with InsufficientSignedWeight.
C7_Original ==
    (Finished /\ SumWeights(context, verifier.votes) < context.threshold)
    => result = "InsufficientSignedWeight"

\* C7 (amended): if every precommit is valid, verification fails with
\* InsufficientSignedWeight when the voters' weight is below the threshold,
\* and does not fail with it when the weight equals or exceeds the threshold.
C7_InsufficientWeightRejected ==
    (Finished /\ AllValid)
    => (result = "InsufficientSignedWeight"
          <=> SumWeights(context, Voters) < context.threshold)

C7_Witness ==
    /\ Finished /\ result = "InsufficientSignedWeight"
    /\ NumPrecommits = 1 /\ AllValid
    /\ SumWeights(context, Voters) = context.threshold - 1

\* C8: if every precommit before k is valid and the signature of the
\* precommit at k does not verify, verification fails with
\* InvalidAuthoritySignature, whatever the authority and target of k.
C8_InvalidSignatureRejected ==
    (Finished /\ \E k \in 1..NumPrecommits :
        AllValidBefore(k) /\ ~WellSigned(Precommit(k)))
    => result = "InvalidAuthoritySignature"

C8_Witness ==
    /\ Finished /\ result = "InvalidAuthoritySignature"
    /\ NumPrecommits = 2 /\ ValidAt(1)
    /\ ~WellSigned(Precommit(2))
    /\ ~KnownAuthority(Precommit(2)) /\ ~Connected(Precommit(2))

\* C9: if every precommit before k is valid and the precommit at k is
\* well-signed by a known authority but its target is not connected to the
\* finalized target, verification fails with UnrelatedAncestryVote, also when
\* the authority already has an accepted vote.
C9_UnrelatedAncestryRejected ==
    (Finished /\ \E k \in 1..NumPrecommits :
        /\ AllValidBefore(k)
        /\ WellSigned(Precommit(k)) /\ KnownAuthority(Precommit(k))
        /\ ~Connected(Precommit(k)))
    => result = "UnrelatedAncestryVote"

C9_Witness ==
    /\ Finished /\ result = "UnrelatedAncestryVote"
    /\ NumPrecommits = 2 /\ ValidAt(1)
    /\ WellSigned(Precommit(2)) /\ ~Connected(Precommit(2))
    /\ Precommit(2).id = Precommit(1).id

\* C10: during a call every authority is credited by the valid-vote callback
\* at most once, the accepted set holds exactly the credited authorities, and
\* the accumulated weight is the sum of the weights of the accepted set.
C10_EachAuthorityCountedOnce ==
    pc # "idle"
    => /\ \A a \in AuthorityId : credits[a] <= 1
       /\ verifier.votes = {a \in AuthorityId : credits[a] >= 1}
       /\ verifier.votes \subseteq DOMAIN context.weights
       /\ cumulative_weight = SumWeights(context, verifier.votes)

C10_Witness ==
    /\ pc = "loop" /\ idx = 3
    /\ Cardinality(verifier.votes) = 2
    /\ cumulative_weight = 3

\* Errors a callback reports about one precommit.
PrecommitErrors ==
    {"RedundantAuthorityVote", "DuplicateAuthorityVote", "UnknownAuthorityVote",
     "UnrelatedAncestryVote", "InvalidAuthoritySignature"}

FailedOnPrecommit == Finished /\ result \in PrecommitErrors

\* The first check the precommit at k does not pass, every earlier precommit
\* being valid.
FirstFailure(k) ==
    IF ~WellSigned(Precommit(k)) THEN "InvalidAuthoritySignature"
    ELSE IF ~KnownAuthority(Precommit(k)) THEN "UnknownAuthorityVote"
    ELSE IF ~Connected(Precommit(k)) THEN "UnrelatedAncestryVote"
    ELSE IF \E j \in 1..(k - 1) : Precommit(j) = Precommit(k) THEN "RedundantAuthorityVote"
    ELSE IF \E j \in 1..(k - 1) : Precommit(j).id = Precommit(k).id THEN "DuplicateAuthorityVote"
    ELSE "None"

\* A failure on a precommit is the failure of the lowest-index precommit that
\* does not pass every check; nothing beyond it was examined and one callback
\* was invoked per examined precommit, the last one being the failing one.
FailureIsFirstFailure ==
    FailedOnPrecommit
    => /\ idx \in 1..NumPrecommits
       /\ AllValidBefore(idx) /\ ~ValidAt(idx)
       /\ result = FirstFailure(idx)
       /\ Len(hooks) = idx
       /\ \A n \in 1..(idx - 1) : hooks[n] = Call("process_valid_vote", n - 1)
       /\ hooks[idx].precommit_idx = idx - 1
       /\ hooks[idx].hook # "process_valid_vote"
       /\ verifier.votes = {Precommit(j).id : j \in 1..(idx - 1)}
       /\ visited \subseteq UNION {PathOf(Precommit(j)) : j \in 1..idx}

\* The only step out of a failed call is the start of the next call.
FailureIsFinal ==
    FailedOnPrecommit => (pc' = "loop" /\ idx' = 1 /\ hooks' = <<>>)

\* C11: once a callback fails on the precommit at index i the call ends with
\* that failure: no later precommit is examined, no further callback is
\* invoked, the accepted and visited sets do not change any more, and the
\* error is that of the lowest-index failing precommit.
C11_FirstFailureAborts ==
    /\ []FailureIsFirstFailure
    /\ [][FailureIsFinal]_vars

C11_Witness ==
    /\ FailedOnPrecommit /\ result = "UnknownAuthorityVote"
    /\ idx = 1 /\ NumPrecommits = 2
    /\ ~WellSigned(Precommit(2))

\* C12: a second call with the same target, context and justification starts
\* from the same working state as the first (empty accepted set, nothing
\* visited, no weight) and returns the same result.
C12_RepeatedCallSameResult ==
    /\ (pc = "loop" /\ idx = 1)
       => /\ verifier.votes = {}
          /\ visited = {}
          /\ cumulative_weight = 0
    /\ (Finished /\ previous # "None") => result = previous

C12_Witness ==
    /\ Finished /\ previous = "Ok" /\ result = "Ok"
    /\ NumPrecommits = 2
    /\ verifier.votes # {}

\* A callback has returned (HookSpec).
HookReturned == pc \in {"hook_ok", "hook_err"}

\* The error each problem callback reports.
HookError(hook) ==
    CASE hook = "process_redundant_vote" -> "RedundantAuthorityVote"
      [] hook = "process_known_authority_vote" -> "DuplicateAuthorityVote"
      [] hook = "process_unknown_authority_vote" -> "UnknownAuthorityVote"
      [] hook = "process_unrelated_ancestry_vote" -> "UnrelatedAncestryVote"
      [] hook = "process_invalid_signature_vote" -> "InvalidAuthoritySignature"
      [] hook = "process_redundant_votes_ancestries" -> "RedundantVotesAncestries"
      [] OTHER -> "None"

\* C13 (as stated): every callback other than process_valid_vote returns a
\* hard failure on every invocation, in every state of the accepted set and
\* for every argument.
C13_Original ==
    (HookReturned /\ hooks[1].hook # "process_valid_vote") => pc = "hook_err"

\* C13 (amended): every callback other than process_valid_vote and
\* process_known_authority_vote returns its hard failure on every invocation;
\* process_known_authority_vote fails (DuplicateAuthorityVote) exactly when
\* the authority of its precommit is in the accepted set and returns Run
\* otherwise; no callback returns the skip signal.
C13_ProblemHooksFail ==
    HookReturned
    => /\ result # "Skip"
       /\ pc = "hook_err" => result = HookError(hooks[1].hook)
       /\ hooks[1].hook \notin {"process_valid_vote", "process_known_authority_vote"}
          => pc = "hook_err"
       /\ hooks[1].hook = "process_known_authority_vote"
          => /\ pc = "hook_err" <=> justification.precommits[1].id \in verifier.votes
             /\ pc = "hook_ok" => result = "Run"

C13_Witness ==
    /\ pc = "hook_err" /\ result = "DuplicateAuthorityVote"
    /\ hooks[1] = Call("process_known_authority_vote", 1)
    /\ Cardinality(verifier.votes) = 2

\* The callbacks that are told the index of a precommit.
PrecommitHooks ==
    {"process_redundant_vote", "process_known_authority_vote",
     "process_unknown_authority_vote", "process_unrelated_ancestry_vote",
     "process_invalid_signature_vote"}

\* What a callback returns for the precommit of the justification when it is
\* told index k.
HookResult(hook, k) ==
    CASE hook = "process_redundant_vote" -> process_redundant_vote(verifier, k)
      [] hook = "process_known_authority_vote" ->
            process_known_authority_vote(verifier, k, justification.precommits[1])
      [] hook = "process_unknown_authority_vote" ->
            process_unknown_authority_vote(verifier, k)
      [] hook = "process_unrelated_ancestry_vote" ->
            process_unrelated_ancestry_vote(verifier, k)
      [] hook = "process_invalid_signature_vote" ->
            process_invalid_signature_vote(verifier, k)

AncestriesHookInvoked ==
    \E n \in 1..Len(hooks) : hooks[n].hook = "process_redundant_votes_ancestries"

\* C15: RedundantVotesAncestries is returned only if some supplied header was
\* never marked visited; when the precommit loop and the quorum check pass
\* and every supplied header was visited (also when none was supplied), the
\* redundant-ancestries step does not fail and the call succeeds.
C15_RedundantAncestriesOnlyIfUnvisited ==
    /\ (Finished /\ result = "RedundantVotesAncestries")
       => (SuppliedHashes \ visited # {} /\ AncestriesHookInvoked)
    /\ (Finished /\ idx > NumPrecommits
          /\ SumWeights(context, verifier.votes) >= context.threshold
          /\ SuppliedHashes \subseteq visited)
       => (result = "Ok" /\ ~AncestriesHookInvoked)

C15_Witness ==
    /\ Finished /\ result = "Ok"
    /\ NumPrecommits = 2
    /\ justification.votes_ancestries = {}

\* What a call can return.
Outcomes ==
    PrecommitErrors \cup {"Ok", "InsufficientSignedWeight", "RedundantVotesAncestries"}

\* A supplied header that is its own ancestor.
OnCycle(h) ==
    \E n \in 1..Cardinality(justification.votes_ancestries) : h.hash \in Back({h.hash}, n)

\* C16: every call ends, with success or with one error, also when the
\* supplied headers are non-conforming (parent links that form a cycle,
\* numbers that do not decrease along the links).
C16_EveryCallTerminates ==
    /\ [](Finished => result \in Outcomes)
    /\ (pc = "loop") ~> Finished

C16_Witness ==
    /\ Finished /\ result = "UnrelatedAncestryVote"
    /\ NumPrecommits = 2 /\ idx = 2
    /\ WellSigned(Precommit(2)) /\ KnownAuthority(Precommit(2))
    /\ \E h \in justification.votes_ancestries :
         OnCycle(h) /\ h.hash = Precommit(2).target_hash

\* The precommit names the finalized target itself.
NamesTarget(p) ==
    p.target_hash = finalized_target.hash /\ p.target_number = finalized_target.number

\* The precommits whose walk has been made and has succeeded: the accepted
\* ones and, after a duplicate or redundant vote, the rejected one.
Walked ==
    {k \in 1..NumPrecommits :
        \/ k < idx
        \/ /\ k = idx /\ Finished
           /\ result \in {"DuplicateAuthorityVote", "RedundantAuthorityVote"}}

\* C17: a precommit that names the finalized target passes the ancestry check
\* without a walk and marks no supplied header; the headers marked visited
\* are exactly those on the paths of the successful walks.
C17_VisitedIsWalkedPaths ==
    /\ \A k \in 1..NumPrecommits :
         NamesTarget(Precommit(k))
         => LET anc == Ancestry(justification.votes_ancestries,
                                Precommit(k).target_hash, Precommit(k).target_number)
            IN anc.found /\ anc.route \cap SuppliedHashes = {}
    /\ pc \in {"loop", "ancestries", "done"}
       => visited \cap SuppliedHashes = UNION {PathOf(Precommit(k)) : k \in Walked}

C17_Witness ==
    /\ Finished /\ result = "RedundantVotesAncestries"
    /\ NumPrecommits = 2
    /\ NamesTarget(Precommit(1))
    /\ Precommit(2).target_hash # finalized_target.hash
    /\ Cardinality(visited) = 2
    /\ Cardinality(justification.votes_ancestries) = 3

\* The step invokes process_valid_vote.
ValidVoteStep ==
    /\ Len(hooks') = Len(hooks) + 1
    /\ hooks'[Len(hooks')].hook = "process_valid_vote"

\* The accepted set across one step: empty when a call starts; within a call
\* a step that invokes process_valid_vote adds the authority of the precommit
\* at idx and nothing else, and any other step leaves the set as it is.
AcceptedSetStep ==
    /\ (pc \in {"idle", "done"} /\ pc' = "loop") => verifier'.votes = {}
    /\ pc \in {"loop", "ancestries"}
       => /\ verifier.votes \subseteq verifier'.votes
          /\ ValidVoteStep
             => verifier'.votes = verifier.votes \cup {Precommit(idx).id}
          /\ ~ValidVoteStep => verifier'.votes = verifier.votes

\* C18: the accepted set is empty at the start of every call, is changed only
\* by process_valid_vote, which adds exactly the authority of its precommit,
\* is left unchanged by every other callback, and never shrinks during a call.
C18_AcceptedSetFrame == [][AcceptedSetStep]_vars

C18_Witness ==
    /\ pc = "ancestries"
    /\ verifier.votes = {"a1", "a2"}
    /\ hooks = <<Call("process_valid_vote", 0), Call("process_valid_vote", 1)>>
    /\ previous = "Ok"

====
